---- MODULE Spec2Model ----
(***************************************************************************)
(* A model of iocp-wrapper: the Interests bitset (src/interests.rs) and    *)
(* the AFD helper functions afd_poll, ws_get_base_socket and               *)
(* afd_create_helper_handle (src/main.rs).                                 *)
(***************************************************************************)
EXTENDS Integers, Sequences, FiniteSets, TLC

VARIABLES
    target_os,   \* the cfg(target_os) the crate is built for
    this,        \* an Interests value held by the caller (self)
    other,       \* a second Interests value held by the caller
    or_eval,     \* the last evaluation of `this | other` and its variants
    dbg,         \* the last Debug rendering of `this`
    poll_pc,     \* position of the running afd_poll call
    iosb,        \* (*piosb).u.Status, the request's status block
    iosb_at_submit, \* the status block as NtDeviceIoControlFile found it
    ioctl_status,   \* NTSTATUS returned by NtDeviceIoControlFile
    ioctl_calls, \* NtDeviceIoControlFile calls made by the running afd_poll
    poll_ret,    \* the u32 afd_poll returned
    ws,          \* the last ws_get_base_socket call
    helper,      \* the last afd_create_helper_handle call
    table,       \* Poller: socket -> registration and its PollRequest
    queued,      \* driver: socket -> operations queued on its poll buffer
    cancelling,  \* driver: socket -> queued operations being cancelled
    port,        \* completion port: the packets not yet dequeued
    last_wait    \* what the last wait call dequeued and returned

interests_vars == <<target_os, this, other, or_eval, dbg>>

poll_vars == <<poll_pc, iosb, iosb_at_submit, ioctl_status, ioctl_calls, poll_ret>>

afd_vars == <<poll_vars, ws, helper>>

poller_vars == <<table, queued, cancelling, port, last_wait>>

vars == <<interests_vars, afd_vars, poller_vars>>

(***************************************************************************)
(* src/interests.rs                                                        *)
(***************************************************************************)

\* Width of the byte inside NonZeroU8.
U8Bits == 8

READABLE == 1
WRITABLE == 2
AIO == 4
LIO == 8

TargetOS == {"windows", "macos", "freebsd"}

\* cfg(any(dragonfly, freebsd, ios, macos)): AIO is available.
HasAio(os) == os \in {"macos", "freebsd"}

\* cfg(target_os = "freebsd"): LIO is available.
HasLio(os) == os = "freebsd"

\* The public associated constants of Interests under a given cfg.
PublicConstants(os) ==
    {READABLE, WRITABLE}
        \cup (IF HasAio(os) THEN {AIO} ELSE {})
        \cup (IF HasLio(os) THEN {LIO} ELSE {})

RECURSIVE BitOrN(_, _, _)
\* u8 `|`, bit by bit.
BitOrN(x, y, n) ==
    IF n = 0 THEN 0
    ELSE (IF x % 2 = 1 \/ y % 2 = 1 THEN 1 ELSE 0)
             + 2 * BitOrN(x \div 2, y \div 2, n - 1)

RECURSIVE BitAndN(_, _, _)
\* u8 `&`, bit by bit.
BitAndN(x, y, n) ==
    IF n = 0 THEN 0
    ELSE (IF x % 2 = 1 /\ y % 2 = 1 THEN 1 ELSE 0)
             + 2 * BitAndN(x \div 2, y \div 2, n - 1)

is_readable(v) == BitAndN(v, READABLE, U8Bits) # 0
is_writable(v) == BitAndN(v, WRITABLE, U8Bits) # 0
is_aio(v) == BitAndN(v, AIO, U8Bits) # 0
is_lio(v) == BitAndN(v, LIO, U8Bits) # 0

\* A plausible slip in bitor: intersecting instead of uniting.
bitor_intersects(a, b) == BitAndN(a, b, U8Bits)

\* A plausible slip in bitor: keeping only the right operand.
bitor_keeps_other(a, b) == b

\* BitOr::bitor: NonZeroU8::new_unchecked(self.0.get() | other.0.get()).
bitor(a, b) == BitOrN(a, b, U8Bits)

\* BitOrAssign::bitor_assign: self.0 = (*self | other).0.
bitor_assign(a, b) == bitor(a, b)

\* One `if self.is_x() { if one { " | " } NAME; one = true }` block of fmt.
FmtFlag(st, set, name) ==
    IF set
    THEN [text |-> st.text \o (IF st.one THEN " | " ELSE "") \o name,
          one |-> TRUE]
    ELSE st

\* A plausible slip in fmt: the separator written without testing `one`.
fmt_always_separates(v, os) ==
    LET sep(st, set, name) ==
            IF set THEN [text |-> st.text \o " | " \o name, one |-> TRUE] ELSE st
        s0 == [text |-> "", one |-> FALSE]
        s1 == sep(s0, is_readable(v), "READABLE")
        s2 == sep(s1, is_writable(v), "WRITABLE")
        s3 == IF HasAio(os) THEN sep(s2, is_aio(v), "AIO") ELSE s2
        s4 == IF HasLio(os) THEN sep(s3, is_lio(v), "LIO") ELSE s3
    IN  [text |-> s4.text, assert_failed |-> ~s4.one]

\* fmt::Debug for Interests: the text written and whether debug_assert!(one)
\* fails.
fmt(v, os) ==
    LET s0 == [text |-> "", one |-> FALSE]
        s1 == FmtFlag(s0, is_readable(v), "READABLE")
        s2 == FmtFlag(s1, is_writable(v), "WRITABLE")
        s3 == IF HasAio(os) THEN FmtFlag(s2, is_aio(v), "AIO") ELSE s2
        s4 == IF HasLio(os) THEN FmtFlag(s3, is_lio(v), "LIO") ELSE s3
    IN  [text |-> s4.text, assert_failed |-> ~s4.one]

(***************************************************************************)
(* src/main.rs                                                             *)
(***************************************************************************)

\* NTSTATUS values (i32).
STATUS_SUCCESS == 0
STATUS_PENDING == 259
STATUS_INVALID_HANDLE == -1073741816
STATUS_INVALID_PARAMETER == -1073741811
STATUS_CANCELLED == -1073741536
\* A failing status the translation table does not list.
STATUS_UNLISTED == -1058013183

WSAEINPROGRESS == 10036
ERROR_INVALID_HANDLE == 6
ERROR_INVALID_PARAMETER == 87
ERROR_MR_MID_NOT_FOUND == 317
ERROR_OPERATION_ABORTED == 995
ERROR_IO_PENDING == 997

\* SOCKET_ERROR (i32) and INVALID_SOCKET (!0 of usize, written as the
\* two's-complement integer).
SOCKET_ERROR == -1
INVALID_SOCKET == -1

\* Largest handle value drawn for sockets and device handles.
MaxHandle == 3

Handles == 1..MaxHandle

FailingStatuses ==
    {STATUS_INVALID_HANDLE, STATUS_INVALID_PARAMETER, STATUS_CANCELLED,
     STATUS_UNLISTED}

NtStatuses == {STATUS_SUCCESS, STATUS_PENDING} \cup FailingStatuses

\* ntapi's RtlNtStatusToDosError on the statuses drawn here.
RtlNtStatusToDosError(status) ==
    CASE status = STATUS_SUCCESS -> 0
      [] status = STATUS_PENDING -> ERROR_IO_PENDING
      [] status = STATUS_INVALID_HANDLE -> ERROR_INVALID_HANDLE
      [] status = STATUS_INVALID_PARAMETER -> ERROR_INVALID_PARAMETER
      [] status = STATUS_CANCELLED -> ERROR_OPERATION_ABORTED
      [] OTHER -> ERROR_MR_MID_NOT_FOUND

\* A plausible slip in the match of afd_poll: no STATUS_PENDING arm.
afd_poll_match_no_pending_arm(status) ==
    IF status = STATUS_SUCCESS THEN 0 ELSE RtlNtStatusToDosError(status)

\* afd_poll, the match on the submission's status.
afd_poll_match(status) ==
    CASE status = STATUS_SUCCESS -> 0
      [] status = STATUS_PENDING -> WSAEINPROGRESS
      [] OTHER -> RtlNtStatusToDosError(status)

(***************************************************************************)
(* Initial states                                                          *)
(***************************************************************************)

\* No afd_poll call is running and no other call has been made.
AfdIdle ==
    /\ poll_pc = "idle"
    /\ iosb = STATUS_SUCCESS
    /\ iosb_at_submit = STATUS_SUCCESS
    /\ ioctl_status = STATUS_SUCCESS
    /\ ioctl_calls = 0
    /\ poll_ret = 0
    /\ ws = [done |-> FALSE, socket |-> 1, ioctl_ret |-> 0, wrote |-> 0, ret |-> 0]
    /\ helper = [done |-> FALSE, status |-> STATUS_SUCCESS, opens |-> 0,
                 afd_helper_handle |-> 0, associated |-> {},
                 afd_helper_handle_out |-> 0, ret |-> 0]

NoEval == [done |-> FALSE, a |-> READABLE, b |-> READABLE,
           ab |-> READABLE, ba |-> READABLE, aa |-> READABLE]

NoDbg == [done |-> FALSE, of |-> READABLE, text |-> "", assert_failed |-> FALSE]

\* Number of sockets and of caller tokens drawn.
MaxSockets == 1
MaxTokens == 2

Sockets == 1..MaxSockets
Tokens == 1..MaxTokens

NoEntry == [present |-> FALSE, interests |-> READABLE, token |-> 1,
            state |-> "Idle", deregistering |-> FALSE]

NoWait == [done |-> FALSE, dequeued |-> <<>>, suppressed |-> {}, events |-> <<>>]

\* A Poller with an empty registration table and an empty completion port.
PollerIdle ==
    /\ table = [s \in Sockets |-> NoEntry]
    /\ queued = [s \in Sockets |-> 0]
    /\ cancelling = [s \in Sockets |-> 0]
    /\ port = <<>>
    /\ last_wait = NoWait

\* No Interests statement has run on a Windows build.
InterestsIdle ==
    /\ target_os = "windows"
    /\ this = READABLE
    /\ other = READABLE
    /\ or_eval = NoEval
    /\ dbg = NoDbg

InterestsInit ==
    /\ target_os \in TargetOS
    /\ this \in PublicConstants(target_os)
    /\ other \in PublicConstants(target_os)
    /\ or_eval = NoEval
    /\ dbg = NoDbg
    /\ AfdIdle
    /\ PollerIdle

AfdInit ==
    /\ InterestsIdle
    /\ AfdIdle
    /\ PollerIdle

PollerInit ==
    /\ InterestsIdle
    /\ AfdIdle
    /\ PollerIdle

(***************************************************************************)
(* Statements over Interests values                                        *)
(***************************************************************************)

\* let other = Interests::<C>;
TakeConstant(c) ==
    /\ c \in PublicConstants(target_os)
    /\ other' = c
    /\ or_eval' = NoEval
    /\ dbg' = NoDbg
    /\ UNCHANGED <<target_os, this, afd_vars, poller_vars>>

\* Evaluates this | other, other | this and this | this. The values of an
\* expression are temporaries: the next statement drops them.
BitOrExpr ==
    /\ or_eval' = [done |-> TRUE, a |-> this, b |-> other,
                   ab |-> bitor(this, other),
                   ba |-> bitor(other, this),
                   aa |-> bitor(this, this)]
    /\ dbg' = NoDbg
    /\ UNCHANGED <<target_os, this, other, afd_vars, poller_vars>>

\* other |= Interests::<C>;
BitOrAssignConstant(c) ==
    /\ c \in PublicConstants(target_os)
    /\ other' = bitor_assign(other, c)
    /\ or_eval' = NoEval
    /\ dbg' = NoDbg
    /\ UNCHANGED <<target_os, this, afd_vars, poller_vars>>

\* let other = this | other;
BitOrBind ==
    /\ other' = bitor(this, other)
    /\ or_eval' = NoEval
    /\ dbg' = NoDbg
    /\ UNCHANGED <<target_os, this, afd_vars, poller_vars>>

\* this |= other;
BitOrAssignStmt ==
    /\ this' = bitor_assign(this, other)
    /\ or_eval' = NoEval
    /\ dbg' = NoDbg
    /\ UNCHANGED <<target_os, other, afd_vars, poller_vars>>

\* std::mem::swap(&mut this, &mut other): Interests is Copy.
SwapOperands ==
    /\ this' = other
    /\ other' = this
    /\ or_eval' = NoEval
    /\ dbg' = NoDbg
    /\ UNCHANGED <<target_os, afd_vars, poller_vars>>

\* format!("{:?}", this)
DebugFmt ==
    /\ dbg' = [done |-> TRUE, of |-> this,
               text |-> fmt(this, target_os).text,
               assert_failed |-> fmt(this, target_os).assert_failed]
    /\ or_eval' = NoEval
    /\ UNCHANGED <<target_os, this, other, afd_vars, poller_vars>>

InterestsNext ==
    \/ \E c \in {READABLE, WRITABLE, AIO, LIO} : TakeConstant(c)
    \/ \E c \in {READABLE, WRITABLE, AIO, LIO} : BitOrAssignConstant(c)
    \/ BitOrExpr
    \/ BitOrBind
    \/ BitOrAssignStmt
    \/ SwapOperands
    \/ DebugFmt

SpecInterests == InterestsInit /\ [][InterestsNext]_vars


(***************************************************************************)
(* Calls of the functions of src/main.rs                                   *)
(***************************************************************************)

\* afd_poll is entered; the caller's status block holds what the last
\* operation left in it.
AfdPollCall(left) ==
    /\ poll_pc \in {"idle", "returned"}
    /\ poll_pc' = "entered"
    /\ iosb' = left
    /\ ioctl_calls' = 0
    /\ UNCHANGED <<iosb_at_submit, ioctl_status, poll_ret, ws, helper,
                   interests_vars, poller_vars>>

\* A plausible slip: the status block is not armed before the submission.
AfdPollArm_skipped ==
    /\ poll_pc = "entered"
    /\ poll_pc' = "armed"
    /\ UNCHANGED <<iosb, iosb_at_submit, ioctl_status, ioctl_calls, poll_ret,
                   ws, helper, interests_vars, poller_vars>>

\* (*piosb).u.Status = STATUS_PENDING;
AfdPollArm ==
    /\ poll_pc = "entered"
    /\ poll_pc' = "armed"
    /\ iosb' = STATUS_PENDING
    /\ UNCHANGED <<iosb_at_submit, ioctl_status, ioctl_calls, poll_ret, ws,
                   helper, interests_vars, poller_vars>>

\* NtDeviceIoControlFile(...): the driver returns `status`; when `writes`
\* it has stored the status in the status block by the time the call returns.
AfdPollSubmit(status, writes) ==
    /\ poll_pc = "armed"
    /\ poll_pc' = "submitted"
    /\ iosb_at_submit' = iosb
    /\ ioctl_calls' = ioctl_calls + 1
    /\ ioctl_status' = status
    /\ iosb' = IF writes /\ status # STATUS_PENDING THEN status ELSE iosb
    /\ UNCHANGED <<poll_ret, ws, helper, interests_vars, poller_vars>>

\* The queued operation completes in the driver, which stores the final
\* status in the status block.
DriverCompletes(final) ==
    /\ poll_pc \in {"submitted", "returned"}
    /\ ioctl_status = STATUS_PENDING
    /\ iosb = STATUS_PENDING
    /\ iosb' = final
    /\ UNCHANGED <<poll_pc, iosb_at_submit, ioctl_status, ioctl_calls, poll_ret,
                   ws, helper, interests_vars, poller_vars>>

\* match status { ... }: afd_poll returns.
AfdPollReturn ==
    /\ poll_pc = "submitted"
    /\ poll_pc' = "returned"
    /\ poll_ret' = afd_poll_match(ioctl_status)
    /\ UNCHANGED <<iosb, iosb_at_submit, ioctl_status, ioctl_calls, ws, helper,
                   interests_vars, poller_vars>>

\* A plausible slip: falling back to the caller's handle on failure.
ws_get_base_socket_falls_back(socket, ioctl_ret, wrote) ==
    IF ioctl_ret = SOCKET_ERROR THEN socket ELSE wrote

\* ws_get_base_socket, given what WSAIoctl returned and the value of the
\* local base_socket after it: the handle the control call stored, or the 0
\* the local started with when it stored nothing.
ws_get_base_socket(socket, ioctl_ret, wrote) ==
    IF ioctl_ret = SOCKET_ERROR THEN INVALID_SOCKET ELSE wrote

\* A call of ws_get_base_socket: WSAIoctl(SIO_BASE_HANDLE) returns ioctl_ret
\* and, on success, has written the base handle; on failure it may have
\* written anything or nothing.
WsGetBaseSocket(socket, ioctl_ret, wrote) ==
    /\ socket \in Handles
    /\ ioctl_ret \in {0, SOCKET_ERROR}
    /\ wrote \in IF ioctl_ret = 0 THEN Handles ELSE {0} \cup Handles
    /\ ws' = [done |-> TRUE, socket |-> socket, ioctl_ret |-> ioctl_ret,
              wrote |-> wrote,
              ret |-> ws_get_base_socket(socket, ioctl_ret, wrote)]
    /\ UNCHANGED <<poll_vars, helper, interests_vars, poller_vars>>

\* afd_create_helper_handle, the value returned for NtCreateFile's status.
afd_create_helper_handle_ret(status) ==
    IF status = STATUS_SUCCESS THEN -1 ELSE 0

\* A call of afd_create_helper_handle(iocp, afd_helper_handle_out):
\* NtCreateFile returns `status` and, on success, stores `opened` in the
\* local afd_helper_handle. The function makes no other call and does not
\* assign *afd_helper_handle_out, which keeps the caller's value `out0`.
AfdCreateHelperHandle(status, opened, out0) ==
    /\ status \in NtStatuses \ {STATUS_PENDING}
    /\ opened \in Handles
    /\ out0 \in {0} \cup Handles
    /\ helper' = [done |-> TRUE, status |-> status, opens |-> 1,
                  afd_helper_handle |->
                      IF status = STATUS_SUCCESS THEN opened ELSE 0,
                  associated |-> {},
                  afd_helper_handle_out |-> out0,
                  ret |-> afd_create_helper_handle_ret(status)]
    /\ UNCHANGED <<poll_vars, ws, interests_vars, poller_vars>>

AfdPollNext ==
    \/ \E left \in NtStatuses : AfdPollCall(left)
    \/ AfdPollArm
    \/ \E status \in NtStatuses, writes \in BOOLEAN : AfdPollSubmit(status, writes)
    \/ \E final \in {STATUS_SUCCESS, STATUS_CANCELLED} : DriverCompletes(final)
    \/ AfdPollReturn

SpecAfdPoll == AfdInit /\ [][AfdPollNext]_vars

AfdHandlesNext ==
    \/ \E socket \in Handles, ioctl_ret \in {0, SOCKET_ERROR},
          wrote \in {0} \cup Handles : WsGetBaseSocket(socket, ioctl_ret, wrote)
    \/ \E status \in NtStatuses, opened \in Handles, out0 \in {0} \cup Handles :
          AfdCreateHelperHandle(status, opened, out0)

SpecAfdHandles == AfdInit /\ [][AfdHandlesNext]_vars

(***************************************************************************)
(* Poller and PollRequest, sections 4.4 and 4.5 of the specification       *)
(***************************************************************************)

\* Operations on the poll buffer of s whose completion has not been
\* dequeued from the port.
InFlightIn(q, c, prt, s) ==
    q[s] + c[s] + Len(SelectSeq(prt, LAMBDA p : p.sock = s))

InFlight(s) == InFlightIn(queued, cancelling, port, s)

\* A submission through afd_poll whose NtDeviceIoControlFile returns
\* `status`: immediate success is delivered through the port, a pending
\* operation is queued in the driver, a hard error leaves nothing behind.
Submitted(drv, s, status) ==
    LET r == afd_poll_match(status)
    IN  IF r = 0
        THEN [drv EXCEPT !.port = Append(@, [sock |-> s,
                                              status |-> STATUS_SUCCESS,
                                              fired |-> TRUE])]
        ELSE IF r = WSAEINPROGRESS
        THEN [drv EXCEPT !.queued[s] = @ + 1]
        ELSE drv

\* The state of a PollRequest after a submission returning `status`.
StateAfterSubmit(status) ==
    IF afd_poll_match(status) \in {0, WSAEINPROGRESS} THEN "Submitted" ELSE "Idle"

\* The handle-scoped cancel primitive: every operation queued on the buffer
\* of s starts being cancelled.
Cancelled(drv, s) ==
    [drv EXCEPT !.cancelling[s] = @ + drv.queued[s], !.queued[s] = 0]

Driver == [queued |-> queued, cancelling |-> cancelling, port |-> port]

SetDriver(drv) ==
    /\ queued' = drv.queued
    /\ cancelling' = drv.cancelling
    /\ port' = drv.port

\* register(socket, interests, token)
Register(s, interests, token, ioctl_ret, status) ==
    /\ ~table[s].present
    /\ ws_get_base_socket(s, ioctl_ret, s) # INVALID_SOCKET
    /\ afd_poll_match(status) \in {0, WSAEINPROGRESS}
    /\ table' = [table EXCEPT ![s] =
                     [present |-> TRUE, interests |-> interests, token |-> token,
                      state |-> "Submitted", deregistering |-> FALSE]]
    /\ SetDriver(Submitted(Driver, s, status))
    /\ last_wait' = NoWait
    /\ UNCHANGED <<interests_vars, afd_vars>>

\* register(...) failing for `cause`: duplicate registration, base-handle
\* resolution failure (WSAIoctl returns SOCKET_ERROR) or submission failure
\* (afd_poll returns a hard error). The table is left as it was.
RegisterFails(s, cause) ==
    /\ CASE cause = "duplicate" -> table[s].present
         [] cause = "resolution" ->
                ws_get_base_socket(s, SOCKET_ERROR, 0) = INVALID_SOCKET
         [] cause = "submission" ->
                afd_poll_match(STATUS_INVALID_HANDLE) \notin {0, WSAEINPROGRESS}
    /\ last_wait' = NoWait
    /\ UNCHANGED <<table, queued, cancelling, port, interests_vars, afd_vars>>

\* A slip in reregister: resubmitting at once, without waiting for the
\* cancelled operation's completion.
Reregister_resubmits_at_once(s, interests, status) ==
    /\ table[s].present
    /\ ~table[s].deregistering
    /\ table' = [table EXCEPT ![s].interests = interests,
                              ![s].state = StateAfterSubmit(status)]
    /\ SetDriver(Submitted(Cancelled(Driver, s), s, status))
    /\ last_wait' = NoWait
    /\ UNCHANGED <<interests_vars, afd_vars>>

\* reregister(socket, interests): cancels the outstanding request; the
\* resubmission waits for its completion to be dequeued. With nothing
\* outstanding it submits at once, and `status` is what that submission
\* returns.
Reregister(s, interests, status) ==
    /\ table[s].present
    /\ ~table[s].deregistering
    /\ table[s].state # "Idle" => status = STATUS_PENDING
    /\ IF table[s].state = "Idle"
       THEN /\ table' = [table EXCEPT ![s].interests = interests,
                                      ![s].state = StateAfterSubmit(status)]
            /\ SetDriver(Submitted(Driver, s, status))
       ELSE /\ table' = [table EXCEPT ![s].interests = interests,
                                      ![s].state = "CancelPending"]
            /\ SetDriver(Cancelled(Driver, s))
    /\ last_wait' = NoWait
    /\ UNCHANGED <<interests_vars, afd_vars>>

\* deregister(socket): cancels the outstanding request and removes the entry
\* once its completion is dequeued, or at once if nothing is outstanding.
Deregister(s) ==
    /\ table[s].present
    /\ ~table[s].deregistering
    /\ IF table[s].state = "Idle"
       THEN /\ table' = [table EXCEPT ![s] = NoEntry]
            /\ UNCHANGED <<queued, cancelling, port>>
       ELSE /\ table' = [table EXCEPT ![s].state = "CancelPending",
                                      ![s].deregistering = TRUE]
            /\ SetDriver(Cancelled(Driver, s))
    /\ last_wait' = NoWait
    /\ UNCHANGED <<interests_vars, afd_vars>>

\* The driver completes a queued operation, cancelled in the meantime or
\* not, with `status`.
DriverFires(s, status, fired) ==
    /\ queued[s] + cancelling[s] > 0
    /\ fired => status = STATUS_SUCCESS
    /\ IF queued[s] > 0
       THEN queued' = [queued EXCEPT ![s] = @ - 1] /\ UNCHANGED cancelling
       ELSE cancelling' = [cancelling EXCEPT ![s] = @ - 1] /\ UNCHANGED queued
    /\ port' = Append(port, [sock |-> s, status |-> status, fired |-> fired])
    /\ UNCHANGED <<table, last_wait, interests_vars, afd_vars>>

\* The driver completes a cancelled operation with STATUS_CANCELLED.
DriverCancels(s) ==
    /\ cancelling[s] > 0
    /\ cancelling' = [cancelling EXCEPT ![s] = @ - 1]
    /\ port' = Append(port, [sock |-> s, status |-> STATUS_CANCELLED,
                             fired |-> FALSE])
    /\ UNCHANGED <<table, queued, last_wait, interests_vars, afd_vars>>

\* A slip in decode: the deregistering mark is not consulted.
Decoded_ignores_deregistering(e, p) ==
    IF p.status = STATUS_SUCCESS
    THEN IF p.fired
         THEN <<[sock |-> p.sock, token |-> e.token,
                 readable |-> is_readable(e.interests),
                 writable |-> is_writable(e.interests), error |-> FALSE]>>
         ELSE <<>>
    ELSE IF p.status = STATUS_CANCELLED THEN <<>>
    ELSE <<[sock |-> p.sock, token |-> e.token, readable |-> FALSE,
            writable |-> FALSE, error |-> TRUE]>>

\* Completion decode for the registration e of the packet p, as a sequence
\* of zero or one Event: nothing for a
\* socket being deregistered, for a success with nothing fired and for a
\* cancellation; a readiness Event for a fired success; an error Event for
\* any other status.
Decoded(e, p) ==
    IF e.deregistering THEN <<>>
    ELSE IF p.status = STATUS_SUCCESS
    THEN IF p.fired
         THEN <<[sock |-> p.sock, token |-> e.token,
                 readable |-> is_readable(e.interests),
                 writable |-> is_writable(e.interests), error |-> FALSE]>>
         ELSE <<>>
    ELSE IF p.status = STATUS_CANCELLED THEN <<>>
    ELSE <<[sock |-> p.sock, token |-> e.token, readable |-> FALSE,
            writable |-> FALSE, error |-> TRUE]>>

RECURSIVE Drained(_, _, _)
\* wait's loop over the dequeued packets: decode, drop the entry of a
\* deregistered socket, re-arm every surviving registration with a fresh
\* submission returning rearm[socket].
Drained(pkts, acc, rearm) ==
    IF pkts = <<>> THEN acc
    ELSE LET p == Head(pkts)
             e == acc.table[p.sock]
             drv == [queued |-> acc.queued, cancelling |-> acc.cancelling,
                     port |-> acc.port]
             sub == Submitted(drv, p.sock, rearm[p.sock])
         IN  IF e.deregistering
             THEN Drained(Tail(pkts),
                          [acc EXCEPT !.table[p.sock] = NoEntry,
                                      !.events = @ \o Decoded(e, p)],
                          rearm)
             ELSE Drained(Tail(pkts),
                          [table |-> [acc.table EXCEPT ![p.sock].state =
                                          StateAfterSubmit(rearm[p.sock])],
                           queued |-> sub.queued,
                           cancelling |-> sub.cancelling,
                           port |-> sub.port,
                           events |-> acc.events \o Decoded(e, p)],
                          rearm)

\* wait(timeout): dequeues the first n packets of the port; rearm[s] is what
\* the re-arming submission for s returns, if one is made.
Wait(n, rearm) ==
    /\ n \in 0..Len(port)
    /\ (port # <<>>) => n > 0
    /\ \A s \in Sockets :
           (\A i \in 1..n : port[i].sock # s) => rearm[s] = STATUS_PENDING
    /\ LET taken == SubSeq(port, 1, n)
           acc == Drained(taken,
                          [table |-> table, queued |-> queued,
                           cancelling |-> cancelling,
                           port |-> SubSeq(port, n + 1, Len(port)),
                           events |-> <<>>],
                          rearm)
       IN  /\ table' = acc.table
           /\ queued' = acc.queued
           /\ cancelling' = acc.cancelling
           /\ port' = acc.port
           /\ last_wait' = [done |-> TRUE, dequeued |-> taken,
                            suppressed |-> {s \in Sockets : table[s].deregistering},
                            events |-> acc.events]
    /\ UNCHANGED <<interests_vars, afd_vars>>

SubmitStatuses == {STATUS_SUCCESS, STATUS_PENDING, STATUS_INVALID_HANDLE}

PollerNext ==
    \/ \E s \in Sockets, i \in {READABLE, WRITABLE}, t \in Tokens,
          r \in {0, SOCKET_ERROR}, st \in SubmitStatuses : Register(s, i, t, r, st)
    \/ \E s \in Sockets, cause \in {"duplicate", "resolution", "submission"} :
          RegisterFails(s, cause)
    \/ \E s \in Sockets, i \in {READABLE, WRITABLE}, st \in SubmitStatuses :
          Reregister(s, i, st)
    \/ \E s \in Sockets : Deregister(s)
    \/ \E s \in Sockets, st \in {STATUS_SUCCESS, STATUS_INVALID_HANDLE},
          f \in BOOLEAN : DriverFires(s, st, f)
    \/ \E s \in Sockets : DriverCancels(s)
    \/ \E n \in 0..Len(port), rearm \in [Sockets -> SubmitStatuses] :
          Wait(n, rearm)

SpecPoller == PollerInit /\ [][PollerNext]_vars

(***************************************************************************)
(* Properties                                                              *)
(***************************************************************************)

\* v is a non-zero byte and at least one of the four predicates is true.
NonEmpty(v) ==
    /\ v \in 1..255
    /\ is_readable(v) \/ is_writable(v) \/ is_aio(v) \/ is_lio(v)

\* C1: every Interests value obtained from the public constants by `|` and
\* `|=` is non-empty: its byte is non-zero and one of is_readable,
\* is_writable, is_aio, is_lio is true.
C1_NeverEmpty ==
    /\ NonEmpty(this)
    /\ NonEmpty(other)
    /\ or_eval.done =>
           NonEmpty(or_eval.ab) /\ NonEmpty(or_eval.ba) /\ NonEmpty(or_eval.aa)

\* A union of two values that share no flag has been evaluated, and `this`
\* was itself built by `|=`.
C1_Witness ==
    /\ or_eval.done
    /\ or_eval.a = READABLE + AIO
    /\ or_eval.b = WRITABLE + LIO

\* C2: A | A = A, A | B = B | A, and (A | B).is_X() = A.is_X() || B.is_X()
\* for each of the four flags.
C2_UnionLaws ==
    or_eval.done =>
        /\ or_eval.aa = or_eval.a
        /\ or_eval.ab = or_eval.ba
        /\ is_readable(or_eval.ab) = (is_readable(or_eval.a) \/ is_readable(or_eval.b))
        /\ is_writable(or_eval.ab) = (is_writable(or_eval.a) \/ is_writable(or_eval.b))
        /\ is_aio(or_eval.ab) = (is_aio(or_eval.a) \/ is_aio(or_eval.b))
        /\ is_lio(or_eval.ab) = (is_lio(or_eval.a) \/ is_lio(or_eval.b))

\* A union has been evaluated whose operands each have a flag the other
\* lacks and share one.
C2_Witness ==
    /\ or_eval.done
    /\ or_eval.a = READABLE + WRITABLE
    /\ or_eval.b = WRITABLE + AIO

\* C3: when the control call fails ws_get_base_socket returns INVALID_SOCKET
\* and not the caller's handle; when it succeeds it returns the handle the
\* control call wrote.
C3_SentinelOrBase ==
    ws.done =>
        /\ ws.ioctl_ret = SOCKET_ERROR =>
               ws.ret = INVALID_SOCKET /\ ws.ret # ws.socket
        /\ ws.ioctl_ret # SOCKET_ERROR => ws.ret = ws.wrote
        /\ ws.ret \in {INVALID_SOCKET, ws.wrote}

\* The control call failed after storing a handle in the out buffer.
C3_Witness ==
    /\ ws.done
    /\ ws.ioctl_ret = SOCKET_ERROR
    /\ ws.wrote \in Handles

\* C4: afd_create_helper_handle returns non-zero if and only if opening the
\* device failed, after exactly one open attempt.
C4_ErrorIffOpenFails ==
    helper.done =>
        /\ (helper.ret # 0) <=> (helper.status # STATUS_SUCCESS)
        /\ helper.opens = 1

\* C5: after a successful open the handle is associated with the completion
\* port and stored through afd_helper_handle_out before the function
\* returns.
C5_BoundAndDelivered ==
    (helper.done /\ helper.status = STATUS_SUCCESS) =>
        /\ helper.afd_helper_handle \in helper.associated
        /\ helper.afd_helper_handle_out = helper.afd_helper_handle

\* C6: a call of afd_poll makes one submission and returns 0 exactly for
\* STATUS_SUCCESS, WSAEINPROGRESS exactly for STATUS_PENDING, and the
\* translated error code, which is neither, for any other status.
C6_ThreeOutcomes ==
    /\ ioctl_calls <= 1
    /\ poll_pc = "returned" =>
           /\ ioctl_calls = 1
           /\ (poll_ret = 0) <=> (ioctl_status = STATUS_SUCCESS)
           /\ (poll_ret = WSAEINPROGRESS) <=> (ioctl_status = STATUS_PENDING)
           /\ ioctl_status \in FailingStatuses =>
                  poll_ret = RtlNtStatusToDosError(ioctl_status)

\* afd_poll has returned for a queued submission.
C6_Witness ==
    /\ poll_pc = "returned"
    /\ ioctl_status = STATUS_PENDING

\* C7: at no time are two operations outstanding on the poll buffer of one
\* socket, and a registered socket has exactly one request: an operation is
\* outstanding exactly while that request is Submitted or CancelPending.
C7_OneOutstanding ==
    \A s \in Sockets :
        /\ InFlight(s) <= 1
        /\ (InFlight(s) = 1) <=> (table[s].present /\ table[s].state # "Idle")

\* A wait call dequeued the completion of a cancelled operation of a socket
\* that stays registered, and re-armed it.
C7_Witness ==
    /\ last_wait.done
    /\ \E i \in 1..Len(last_wait.dequeued) :
           LET p == last_wait.dequeued[i]
           IN  /\ p.status = STATUS_CANCELLED
               /\ table[p.sock].present
               /\ table[p.sock].state = "Submitted"
               /\ InFlight(p.sock) = 1

\* C8: a wait call returns no Event for a socket that was deregistered
\* before it, also when it dequeues that socket's cancellation completion.
C8_NoEventAfterDeregister ==
    last_wait.done =>
        \A i \in 1..Len(last_wait.events) :
            last_wait.events[i].sock \notin last_wait.suppressed

\* A wait call dequeued the cancellation completion of a socket deregistered
\* while its request was Submitted.
C8_Witness ==
    /\ last_wait.done
    /\ \E i \in 1..Len(last_wait.dequeued) :
           /\ last_wait.dequeued[i].sock \in last_wait.suppressed
           /\ last_wait.dequeued[i].status = STATUS_CANCELLED
           /\ ~table[last_wait.dequeued[i].sock].present

\* The names of the flags set in byte v, in the order READABLE, WRITABLE,
\* AIO, LIO.
NamesOf(v) ==
    (IF (v \div 1) % 2 = 1 THEN <<"READABLE">> ELSE <<>>)
        \o (IF (v \div 2) % 2 = 1 THEN <<"WRITABLE">> ELSE <<>>)
        \o (IF (v \div 4) % 2 = 1 THEN <<"AIO">> ELSE <<>>)
        \o (IF (v \div 8) % 2 = 1 THEN <<"LIO">> ELSE <<>>)

RECURSIVE Joined(_)
\* The strings of seq joined by " | ".
Joined(seq) ==
    IF seq = <<>> THEN ""
    ELSE IF Len(seq) = 1 THEN seq[1]
    ELSE seq[1] \o " | " \o Joined(Tail(seq))

\* C9: the Debug text of a value is the names of exactly its set flags, in
\* the order READABLE, WRITABLE, AIO, LIO, joined by " | "; at least one
\* name is written and the debug assertion does not fail.
C9_DebugText ==
    dbg.done =>
        /\ dbg.text = Joined(NamesOf(dbg.of))
        /\ dbg.text # ""
        /\ ~dbg.assert_failed

\* A value with all four flags has been rendered.
C9_Witness ==
    /\ dbg.done
    /\ dbg.of = READABLE + WRITABLE + AIO + LIO

\* The result afd_poll owes the caller for a submission status.
ResultFor(status) ==
    IF status = STATUS_SUCCESS THEN 0
    ELSE IF status = STATUS_PENDING THEN WSAEINPROGRESS
    ELSE RtlNtStatusToDosError(status)

\* C10: the status block holds STATUS_PENDING when the submission is issued,
\* and the result afd_poll returns is that of the submission's status,
\* whatever the status block holds by then.
C10_ArmedBeforeSubmit ==
    /\ poll_pc \in {"submitted", "returned"} => iosb_at_submit = STATUS_PENDING
    /\ poll_pc = "returned" => poll_ret = ResultFor(ioctl_status)

\* afd_poll has returned for a queued submission whose status block the
\* driver has already overwritten, after a call that found the block holding
\* a stale status.
C10_Witness ==
    /\ poll_pc = "returned"
    /\ ioctl_status = STATUS_PENDING
    /\ iosb = STATUS_CANCELLED
    /\ poll_ret = WSAEINPROGRESS

====
